---- MODULE Spec2Model ----
(***************************************************************************)
(* Model of the mongo-mcp-server service: MongoMCPServer (server.py), the  *)
(* MongoQueryTool (tools/query_tool.py) and the MongoCollectionResource    *)
(* (resources/collection_resource.py), together with the MongoDB           *)
(* collection they read.                                                   *)
(*                                                                         *)
(* Python values are records [t |-> type, n |-> number]: the number of an  *)
(* int, 0/1 of a bool, the length of a str, the number of entries of a     *)
(* mapping given as projection or sort.  A dict whose entries matter       *)
(* (arguments, options) is [t |-> "dict", d |-> function].  A query filter *)
(* is [t |-> "filter", f |-> ...].                                         *)
(***************************************************************************)
EXTENDS Integers, Sequences, FiniteSets, TLC

VARIABLES client, db, collection, is_connected, pc, log, store, req, san

vars == <<client, db, collection, is_connected, pc, log, store, req, san>>

(***************************************************************************)
(* Bounds of the model.                                                    *)
(***************************************************************************)
MaxDocs == 101
MaxABC == 1
MaxChurn == 1

(***************************************************************************)
(* Python values.                                                          *)
(***************************************************************************)
IntV(i) == [t |-> "int", n |-> i]
BoolV(b) == [t |-> "bool", n |-> IF b THEN 1 ELSE 0]
StrV(len) == [t |-> "str", n |-> len]
FloatV == [t |-> "float", n |-> 50]
NoneV == [t |-> "null", n |-> 0]
MapV(size) == [t |-> "map", n |-> size]
DictV(f) == [t |-> "dict", d |-> f]
FilterV(f) == [t |-> "filter", f |-> f]
EmptyDict == DictV(<<>>)

Min(a, b) == IF a <= b THEN a ELSE b
Max(a, b) == IF a >= b THEN a ELSE b
Abs(a) == IF a < 0 THEN 0 - a ELSE a

\* isinstance(value, int): bool is a subclass of int
isinstance_int(v) == v.t \in {"int", "bool"}

\* isinstance(value, dict)
isinstance_dict(v) == v.t \in {"dict", "map", "filter"}

\* truth value of a Python object, as tested by `if options.get(key):`
Truthy(v) ==
    CASE v.t = "null" -> FALSE
      [] v.t = "float" -> TRUE
      [] v.t = "filter" -> v.f # "all"
      [] v.t = "dict" -> DOMAIN v.d # {}
      [] OTHER -> v.n # 0

\* dict.get(key): the value, or None when the key is absent
Get(m, k) == IF k \in DOMAIN m THEN m[k] ELSE NoneV

\* dict.get(key, {}) on a dict of arguments
GetOr(m, k, default) == IF k \in DOMAIN m THEN m[k] ELSE default

(***************************************************************************)
(* MongoQueryTool._validate_options                                        *)
(***************************************************************************)
ALLOWED_OPTIONS == {"projection", "sort", "limit", "skip"}

MaxLimit == 100

\* `value > 100` and `value < 0`: comparing a non-number with an int raises
Comparable(v) == v.t \in {"int", "bool", "float"}

GreaterThan(v, k) ==
    IF ~Comparable(v) THEN "TypeError" ELSE IF v.n > k THEN "yes" ELSE "no"

LessThan(v, k) ==
    IF ~Comparable(v) THEN "TypeError" ELSE IF v.n < k THEN "yes" ELSE "no"

\* the limit test without its `value > 100`
LimitInvalid_type_only(v) ==
    IF ~isinstance_int(v) THEN "yes" ELSE "no"

\* not isinstance(value, int) or value > 100
LimitInvalid(v) ==
    IF ~isinstance_int(v) THEN "yes" ELSE GreaterThan(v, MaxLimit)

\* not isinstance(value, int) or value < 0
SkipInvalid(v) ==
    IF ~isinstance_int(v) THEN "yes" ELSE LessThan(v, 0)

ValidatedValue(key, value) ==
    IF key = "limit" /\ LimitInvalid(value) = "yes" THEN IntV(MaxLimit)
    ELSE IF key = "skip" /\ SkipInvalid(value) = "yes" THEN IntV(0)
    ELSE value

\* the exception the loop body raises on some item, "none" if it raises none
ValidateRaises(options) ==
    IF \E k \in DOMAIN options :
          \/ k = "limit" /\ LimitInvalid(options[k]) = "TypeError"
          \/ k = "skip" /\ SkipInvalid(options[k]) = "TypeError"
    THEN "TypeError" ELSE "none"

\* the loop without its whitelist test
validate_options_all_keys(options) ==
    [raised |-> ValidateRaises(options),
     value |-> [k \in DOMAIN options |-> ValidatedValue(k, options[k])]]

validate_options(options) ==
    [raised |-> ValidateRaises(options),
     value |-> [k \in {key \in DOMAIN options : key \in ALLOWED_OPTIONS}
                  |-> ValidatedValue(k, options[k])]]

(***************************************************************************)
(* MongoMCPServer.call_tool, lines 187-188: the whitelist filter           *)
(***************************************************************************)
allowed_options == {"projection", "sort", "limit", "skip"}

filtered_options(options) ==
    [k \in {key \in DOMAIN options : key \in allowed_options} |-> options[k]]

(***************************************************************************)
(* config.py                                                               *)
(***************************************************************************)
COLLECTION_NAME == "detailed_financials"

\* a tool name is its sequence of parts, "query_" + collection name
ToolName(prefix, rest) == <<prefix, rest>>

\* name.startswith("query_")
startswith_query(name) == Len(name) >= 1 /\ name[1] = "query_"

\* the name of the one tool list_tools advertises
list_tools_name == ToolName("query_", COLLECTION_NAME)

\* the one resource list_resources advertises
list_resources_name == <<"mongo_", COLLECTION_NAME>>

(***************************************************************************)
(* The MongoDB collection: `abc` documents with ticker "ABC" and `other`   *)
(* documents without.  pymongo's Collection and Cursor.                    *)
(***************************************************************************)
\* number of documents a filter matches
Matching(st, query) ==
    CASE query.t = "filter" /\ query.f = "ticker" -> st.abc
      [] OTHER -> st.abc + st.other

\* Collection.find(filter): a new cursor, nothing is read yet
NewCursor(query) == [filter |-> query, limit |-> 0, skip |-> 0, sorted |-> FALSE]

\* Collection.find raises TypeError unless the filter is a mapping
FindRaises(query) == IF isinstance_dict(query) THEN "none" ELSE "TypeError"

\* Cursor.limit(value)
CursorLimitRaises(v) == IF isinstance_int(v) THEN "none" ELSE "TypeError"

\* Cursor.skip(value)
CursorSkipRaises(v) ==
    IF ~isinstance_int(v) THEN "TypeError"
    ELSE IF v.n < 0 THEN "ValueError" ELSE "none"

\* list(options['sort'].items())
SortItemsRaises(v) == IF isinstance_dict(v) THEN "none" ELSE "AttributeError"

\* the server's answer to a command over a filter
ServerRaises(query, fail) ==
    IF fail THEN "ConnectionFailure"
    ELSE IF query.t = "filter" /\ query.f = "bad" THEN "OperationFailure"
    ELSE "none"

\* Collection.count_documents(filter)
CountRaises(query, fail) ==
    IF ~isinstance_dict(query) THEN "TypeError" ELSE ServerRaises(query, fail)

\* list(cursor): limit 0 is no limit, a negative limit returns abs(limit)
\* documents in one batch
FindPage(st, cur) ==
    LET avail == Max(Matching(st, cur.filter) - cur.skip, 0)
    IN [start |-> cur.skip + 1,
        len |-> IF cur.limit = 0 THEN avail ELSE Min(avail, Abs(cur.limit))]

NoPage == [start |-> 0, len |-> 0]
NoCursor == [filter |-> NoneV, limit |-> 0, skip |-> 0, sorted |-> FALSE]

(***************************************************************************)
(* Text responses: which message, and the numbers the message states.      *)
(***************************************************************************)
Text(kind) ==
    [kind |-> kind, label |-> "", found |-> -1, showing |-> "none",
     shown |-> -1, first |-> -1, last |-> -1]

NoText == Text("none")

\* what a handler's body produced: an exception or a response, the store
\* operations it performed, the options and the cursor it read with.
\* `raised` is the exception on its way out, `exc` the one that was raised.
Outcome(raised, resp, reads, opts, cur, page) ==
    [raised |-> raised, exc |-> raised, resp |-> resp, reads |-> reads,
     opts |-> opts, cursor |-> cur, page |-> page]

Raise(exc, reads) == Outcome(exc, NoText, reads, <<>>, NoCursor, NoPage)
Return(resp) == Outcome("none", resp, 0, <<>>, NoCursor, NoPage)

(***************************************************************************)
(* MongoMCPServer.call_tool                                                *)
(***************************************************************************)
\* lines 190-215: build the cursor from the filtered options, read it and
\* format the result
call_tool_query(query, fo, st, fail) ==
    LET lim == Get(fo, "limit")
        srt == Get(fo, "sort")
        prj == Get(fo, "projection")
        cur == [NewCursor(query) EXCEPT
                  !.limit = IF Truthy(lim) THEN lim.n ELSE 0,
                  !.sorted = Truthy(srt)]
        page == FindPage(st, cur)
    IN IF FindRaises(query) # "none" THEN Raise(FindRaises(query), 0)
       ELSE IF Truthy(lim) /\ CursorLimitRaises(lim) # "none"
            THEN Raise(CursorLimitRaises(lim), 0)
       ELSE IF Truthy(srt) /\ SortItemsRaises(srt) # "none"
            THEN Raise(SortItemsRaises(srt), 0)
       \* pymongo's Cursor has no attribute `project`
       ELSE IF Truthy(prj) THEN Raise("AttributeError", 0)
       ELSE IF ServerRaises(query, fail) # "none"
            THEN Outcome(ServerRaises(query, fail), NoText, 1, fo, cur, NoPage)
       ELSE IF page.len = 0
            THEN Outcome("none", Text("no_documents"), 1, fo, cur, page)
       ELSE Outcome("none",
                    [Text("documents") EXCEPT !.label = "matching documents",
                                              !.found = page.len],
                    1, fo, cur, page)

\* line 177, with the guard left out
call_tool_not_connected_off(connected) == FALSE

\* line 177: if not self.is_connected
call_tool_not_connected(connected) == ~connected

\* lines 177-188: the guards and the arguments
call_tool_body(connected, name, arguments, st, fail) ==
    IF call_tool_not_connected(connected) THEN Return(Text("not_initialized"))
    ELSE IF ~startswith_query(name) THEN Return(Text("unknown_tool"))
    \* arguments.get on None
    ELSE IF arguments.t # "dict" THEN Raise("AttributeError", 0)
    ELSE LET query == GetOr(arguments.d, "query", FilterV("all"))
             options == GetOr(arguments.d, "options", EmptyDict)
         IN \* options.items() on a value that is no dict
            IF options.t # "dict" THEN Raise("AttributeError", 0)
            ELSE call_tool_query(query, filtered_options(options.d), st, fail)

\* the handler without its try/except
call_tool_except_off(out) == out

\* lines 176, 217-220: except Exception turns the exception into a text
call_tool_except(out) ==
    IF out.raised = "none" THEN out
    ELSE [out EXCEPT !.raised = "none", !.resp = Text("error")]

call_tool(connected, name, arguments, st, fail) ==
    call_tool_except(call_tool_body(connected, name, arguments, st, fail))

(***************************************************************************)
(* MongoMCPServer.read_resource                                            *)
(***************************************************************************)
ResourceLimit == 10

read_resource_body(connected, uri, st, fail) ==
    LET query == FilterV("all")
        cur == [NewCursor(query) EXCEPT !.limit = ResourceLimit]
        page == FindPage(st, cur)
    IN IF ~connected THEN Return(Text("not_initialized"))
       ELSE IF ServerRaises(query, fail) # "none"
            THEN Outcome(ServerRaises(query, fail), NoText, 1, <<>>, cur, NoPage)
       ELSE IF page.len = 0
            THEN Outcome("none", Text("no_documents"), 1, <<>>, cur, page)
       ELSE Outcome("none", Text("documents"), 1, <<>>, cur, page)

\* lines 104, 128-131
read_resource_except(out) ==
    IF out.raised = "none" THEN out
    ELSE [out EXCEPT !.raised = "none", !.resp = Text("error")]

read_resource(connected, uri, st, fail) ==
    read_resource_except(read_resource_body(connected, uri, st, fail))

(***************************************************************************)
(* MongoQueryTool.execute: the count step (lines 101-105) and the read     *)
(* step (lines 108-139) are two operations on the store.                   *)
(***************************************************************************)
\* what the count step leaves for the read step
Counted(query, opts, total) ==
    [raised |-> "none", query |-> query, opts |-> opts, total |-> total, reads |-> 1]

\* the count step raised, before (reads = 0) or in (reads = 1) count_documents
CountFailed(exc, reads) ==
    [raised |-> exc, query |-> NoneV, opts |-> <<>>, total |-> -1, reads |-> reads]

execute_count(params, st, fail) ==
    \* params.get on None
    IF params.t # "dict" THEN CountFailed("AttributeError", 0)
    ELSE LET query == GetOr(params.d, "query", FilterV("all"))
             raw == GetOr(params.d, "options", EmptyDict)
         IN \* options.items() on a value that is no dict
            IF raw.t # "dict" THEN CountFailed("AttributeError", 0)
            ELSE IF validate_options(raw.d).raised # "none"
                 THEN CountFailed(validate_options(raw.d).raised, 0)
            ELSE IF CountRaises(query, fail) # "none"
                 THEN CountFailed(CountRaises(query, fail), 1)
            ELSE Counted(query, validate_options(raw.d).value, Matching(st, query))

execute_find(query, options, total_count, st, fail) ==
    LET prj == Get(options, "projection")
        srt == Get(options, "sort")
        skp == Get(options, "skip")
        lim == Get(options, "limit")
        cur == [NewCursor(query) EXCEPT
                  !.sorted = Truthy(srt),
                  !.skip = IF Truthy(skp) THEN skp.n ELSE 0,
                  !.limit = IF Truthy(lim) THEN lim.n ELSE 0]
        page == FindPage(st, cur)
    IN \* pymongo's Cursor has no attribute `projection`
       IF Truthy(prj) THEN Raise("AttributeError", 1)
       ELSE IF Truthy(srt) /\ SortItemsRaises(srt) # "none"
            THEN Raise(SortItemsRaises(srt), 1)
       ELSE IF Truthy(skp) /\ CursorSkipRaises(skp) # "none"
            THEN Raise(CursorSkipRaises(skp), 1)
       ELSE IF Truthy(lim) /\ CursorLimitRaises(lim) # "none"
            THEN Raise(CursorLimitRaises(lim), 1)
       ELSE IF ServerRaises(query, fail) # "none"
            THEN Outcome(ServerRaises(query, fail), NoText, 2, options, cur, NoPage)
       ELSE IF page.len = 0
            THEN Outcome("none", Text("no_documents"), 2, options, cur, page)
       ELSE Outcome("none",
                    [Text("documents") EXCEPT
                       !.label = "total matching documents",
                       !.found = total_count,
                       !.showing = "count",
                       !.shown = page.len],
                    2, options, cur, page)

\* lines 100, 141-144
execute_except(out) ==
    IF out.raised = "none" THEN out
    ELSE [out EXCEPT !.raised = "none", !.resp = Text("error")]

(***************************************************************************)
(* MongoCollectionResource.get_content: the count step (line 54) and the   *)
(* read step (lines 57-77).                                                *)
(***************************************************************************)
DefaultLimit == 10

get_content_count(query, st, fail) ==
    LET q == IF query.t = "null" THEN FilterV("all") ELSE query
    IN IF CountRaises(q, fail) # "none" THEN CountFailed(CountRaises(q, fail), 1)
       ELSE Counted(q, <<>>, Matching(st, q))

get_content_find(query, skip, limit, total_count, st, fail) ==
    LET cur == [NewCursor(query) EXCEPT !.skip = skip.n, !.limit = limit.n]
        page == FindPage(st, cur)
        opts == [k \in {"skip", "limit"} |-> IF k = "skip" THEN skip ELSE limit]
    IN IF CursorSkipRaises(skip) # "none" THEN Raise(CursorSkipRaises(skip), 1)
       ELSE IF CursorLimitRaises(limit) # "none"
            THEN Raise(CursorLimitRaises(limit), 1)
       ELSE IF ServerRaises(query, fail) # "none"
            THEN Outcome(ServerRaises(query, fail), NoText, 2, opts, cur, NoPage)
       ELSE IF page.len = 0
            THEN Outcome("none", Text("no_documents"), 2, opts, cur, page)
       ELSE Outcome("none",
                    [Text("documents") EXCEPT
                       !.label = "total documents matching query",
                       !.found = total_count,
                       !.showing = "range",
                       !.first = skip.n + 1,
                       !.last = Min(skip.n + page.len, total_count)],
                    2, opts, cur, page)

\* lines 52, 79-82
get_content_except(out) ==
    IF out.raised = "none" THEN out
    ELSE [out EXCEPT !.raised = "none", !.resp = Text("error")]

(***************************************************************************)
(* MongoMCPServer.setup_mongodb and MongoMCPServer.run                     *)
(***************************************************************************)
\* where the connection attempt ends: the statement that raises and whether
\* the exception is a ConnectionFailure / ServerSelectionTimeoutError
SetupOutcomes ==
    {[at |-> "ok", caught |-> FALSE],
     [at |-> "MongoClient", caught |-> FALSE],
     [at |-> "server_info", caught |-> TRUE],
     [at |-> "server_info", caught |-> FALSE],
     [at |-> "count_documents", caught |-> TRUE],
     [at |-> "count_documents", caught |-> FALSE]}

\* setup_mongodb with `self.is_connected = True` also in its except branch
setup_mongodb_connected_on_failure(o, was_connected) ==
    [client |-> IF o.at = "MongoClient" THEN "None" ELSE "set",
     db |-> IF o.at \in {"ok", "count_documents"} THEN "set" ELSE "None",
     collection |-> IF o.at \in {"ok", "count_documents"} THEN "set" ELSE "None",
     is_connected |-> IF o.at = "ok" \/ o.caught THEN TRUE ELSE was_connected,
     logged |-> IF o.at = "ok" THEN {"Successfully connected to MongoDB"}
                ELSE IF o.caught THEN {"Failed to connect to MongoDB"}
                ELSE {},
     returns |-> IF o.at = "ok" THEN "True"
                 ELSE IF o.caught THEN "False" ELSE "raised"]

\* the fields after setup_mongodb and what it returns: "True", "False" or
\* "raised" when the exception is not one of the two it catches
setup_mongodb(o, was_connected) ==
    [client |-> IF o.at = "MongoClient" THEN "None" ELSE "set",
     db |-> IF o.at \in {"ok", "count_documents"} THEN "set" ELSE "None",
     collection |-> IF o.at \in {"ok", "count_documents"} THEN "set" ELSE "None",
     is_connected |-> IF o.at = "ok" THEN TRUE
                      ELSE IF o.caught THEN FALSE ELSE was_connected,
     logged |-> IF o.at = "ok" THEN {"Successfully connected to MongoDB"}
                ELSE IF o.caught THEN {"Failed to connect to MongoDB"}
                ELSE {},
     returns |-> IF o.at = "ok" THEN "True"
                 ELSE IF o.caught THEN "False" ELSE "raised"]

\* run, lines 224-229 and 243-244: where run is after the connection attempt
run_after_setup(returns) ==
    IF returns = "True" THEN "serving" ELSE "returned"

run_logged(returns) ==
    IF returns = "True" THEN {"MCP server stdio transport initialized"}
    ELSE IF returns = "False" THEN {"Failed to initialize MongoDB connection"}
    ELSE {"Error in MCP server"}

(***************************************************************************)
(* The request being handled, or the last one handled.                     *)
(***************************************************************************)
Idle ==
    [op |-> "none", pc |-> "idle", name |-> <<>>, args |-> NoneV,
     query |-> NoneV, total |-> -1, churn |-> 0, raised |-> "none",
     exc |-> "none", resp |-> NoText, reads |-> 0, opts |-> <<>>, cursor |-> NoCursor,
     page |-> NoPage]

\* a handler returned (or raised) `out`
Done(op, name, args, total, out) ==
    [op |-> op, pc |-> "done", name |-> name, args |-> args,
     query |-> out.cursor.filter, total |-> total, churn |-> 0,
     raised |-> out.raised, exc |-> out.exc, resp |-> out.resp,
     reads |-> out.reads,
     opts |-> out.opts, cursor |-> out.cursor, page |-> out.page]

\* the count step succeeded, the read step is still to come
Reading(op, args, c) ==
    [Idle EXCEPT !.op = op, !.pc = "find", !.args = args, !.query = c.query,
                 !.total = c.total, !.opts = c.opts, !.reads = 1]

(***************************************************************************)
(* Inputs.                                                                 *)
(***************************************************************************)
Names == {list_tools_name, ToolName("query_", "unknown"), ToolName("list_", "all")}

Queries == {FilterV("all"), FilterV("ticker"), FilterV("bad"), StrV(3)}

Opt(k, v) == k :> v

OptionBags ==
    {<<>>,
     Opt("limit", IntV(2)), Opt("limit", IntV(500)), Opt("limit", IntV(0)),
     Opt("limit", IntV(-3)), Opt("limit", StrV(2)),
     Opt("skip", IntV(1)), Opt("skip", IntV(-5)), Opt("skip", StrV(1)),
     Opt("limit", IntV(2)) @@ Opt("skip", IntV(1)),
     Opt("hint", StrV(3)),
     Opt("limit", IntV(500)) @@ Opt("batch_size", IntV(1000)) @@ Opt("hint", StrV(3)),
     Opt("sort", MapV(1)), Opt("sort", StrV(1)),
     Opt("projection", MapV(1)), Opt("projection", MapV(0))}

Arguments ==
    {NoneV, EmptyDict}
    \cup {DictV(Opt("query", q)) : q \in Queries}
    \cup {DictV(Opt("query", q) @@ Opt("options", DictV(o))) :
             q \in Queries, o \in OptionBags}
    \cup {DictV(Opt("query", FilterV("all")) @@ Opt("options", v)) : v \in {NoneV, StrV(4)}}

Uris == {"mongodb://detailed_financials", "mongodb://other"}

ContentQueries == {NoneV, FilterV("all"), FilterV("ticker"), FilterV("bad")}
ContentSkips == {IntV(-1), IntV(0), IntV(1)}
ContentLimits == {IntV(-2), IntV(0), IntV(2), IntV(DefaultLimit)}

Stores == [abc : 0..MaxABC, other : 0..MaxDocs]

(***************************************************************************)
(* The state machine.                                                      *)
(***************************************************************************)
NoSan == [done |-> {}, raw |-> <<>>, raised |-> "none", validated |-> <<>>,
          filtered |-> <<>>]

\* MongoMCPServer.__init__, and a collection with any contents
Init ==
    /\ client = "None"
    /\ db = "None"
    /\ collection = "None"
    /\ is_connected = FALSE
    /\ pc = "constructed"
    /\ log = {}
    /\ store \in Stores
    /\ req = Idle
    /\ san = NoSan

server == <<client, db, collection, is_connected, pc, log>>

\* no handler awaits between its steps: a handler starts when no other
\* request is being handled
Free == req.pc = "idle"

\* run() up to the serving loop
Run ==
    /\ pc = "constructed"
    /\ Free
    /\ \E o \in SetupOutcomes :
         LET r == setup_mongodb(o, is_connected)
         IN /\ client' = r.client
            /\ db' = r.db
            /\ collection' = r.collection
            /\ is_connected' = r.is_connected
            /\ pc' = run_after_setup(r.returns)
            /\ log' = log \cup {"Starting MCP server..."} \cup r.logged
                          \cup run_logged(r.returns)
    /\ UNCHANGED <<store, req, san>>

\* mcp_server.run returns when the transport closes
ServeEnd ==
    /\ pc = "serving"
    /\ Free
    /\ pc' = "returned"
    /\ UNCHANGED <<client, db, collection, is_connected, log, store, req, san>>

ListResources ==
    /\ Free
    /\ req' = [Idle EXCEPT !.op = "list_resources", !.pc = "done",
                           !.name = list_resources_name,
                           !.resp = Text("catalog")]
    /\ UNCHANGED <<server, store, san>>

ListTools ==
    /\ Free
    /\ req' = [Idle EXCEPT !.op = "list_tools", !.pc = "done",
                           !.name = list_tools_name,
                           !.resp = Text("catalog")]
    /\ UNCHANGED <<server, store, san>>

ReadResource ==
    /\ Free
    /\ \E uri \in Uris, fail \in BOOLEAN :
         req' = Done("read_resource", <<uri>>, NoneV, -1,
                     read_resource(is_connected, uri, store, fail))
    /\ UNCHANGED <<server, store, san>>

CallTool ==
    /\ Free
    /\ \E name \in Names, arguments \in Arguments, fail \in BOOLEAN :
         req' = Done("call_tool", name, arguments, -1,
                     call_tool(is_connected, name, arguments, store, fail))
    /\ UNCHANGED <<server, store, san>>

\* MongoQueryTool.execute up to count_documents
Execute ==
    /\ Free
    /\ \E params \in Arguments, fail \in BOOLEAN :
         LET c == execute_count(params, store, fail)
         IN req' = IF c.raised # "none"
                   THEN Done("execute", <<>>, params, -1,
                             execute_except(Raise(c.raised, c.reads)))
                   ELSE Reading("execute", params, c)
    /\ UNCHANGED <<server, store, san>>

\* MongoQueryTool.execute from find to its return
ExecuteFind ==
    /\ req.op = "execute" /\ req.pc = "find"
    /\ \E fail \in BOOLEAN :
         req' = Done("execute", <<>>, req.args, req.total,
                     execute_except(execute_find(req.query, req.opts, req.total,
                                                 store, fail)))
    /\ UNCHANGED <<server, store, san>>

\* MongoCollectionResource.get_content up to count_documents
GetContent ==
    /\ Free
    /\ \E query \in ContentQueries, skip \in ContentSkips,
          limit \in ContentLimits, fail \in BOOLEAN :
         LET c == get_content_count(query, store, fail)
             args == DictV(Opt("query", query) @@ Opt("skip", skip)
                           @@ Opt("limit", limit))
         IN req' = IF c.raised # "none"
                   THEN Done("get_content", <<>>, args, -1,
                             get_content_except(Raise(c.raised, c.reads)))
                   ELSE Reading("get_content", args, c)
    /\ UNCHANGED <<server, store, san>>

\* MongoCollectionResource.get_content from find to its return
GetContentFind ==
    /\ req.op = "get_content" /\ req.pc = "find"
    /\ \E fail \in BOOLEAN :
         req' = Done("get_content", <<>>, req.args, req.total,
                     get_content_except(
                        get_content_find(req.query, req.args.d["skip"],
                                         req.args.d["limit"], req.total,
                                         store, fail)))
    /\ UNCHANGED <<server, store, san>>

\* the caller takes the response the handler returned
Respond ==
    /\ req.pc = "done"
    /\ req' = Idle
    /\ UNCHANGED <<server, store, san>>

\* Another client of the database changes the collection, between two
\* requests or between the count and the read of one (a change while a
\* response waits for its caller is a change after it).
Changeable ==
    \/ req.pc = "idle"
    \/ req.pc = "find" /\ req.churn < MaxChurn

AfterChange ==
    IF req.pc = "find" THEN [req EXCEPT !.churn = @ + 1] ELSE req

StoreInsert ==
    /\ Changeable
    /\ \E k \in {"abc", "other"} :
         /\ store[k] < (IF k = "abc" THEN MaxABC ELSE MaxDocs)
         /\ store' = [store EXCEPT ![k] = @ + 1]
    /\ req' = AfterChange
    /\ UNCHANGED <<server, san>>

StoreDelete ==
    /\ Changeable
    /\ \E k \in {"abc", "other"} :
         /\ store[k] > 0
         /\ store' = [store EXCEPT ![k] = @ - 1]
    /\ req' = AfterChange
    /\ UNCHANGED <<server, san>>

\* the server: run() and the four handlers
Next ==
    \/ Run \/ ServeEnd
    \/ ListResources \/ ListTools \/ ReadResource \/ CallTool
    \/ Respond \/ StoreInsert \/ StoreDelete

Spec == Init /\ [][Next]_vars

\* the query tool and the collection resource, on their own collection handle
NextTool ==
    \/ Execute \/ ExecuteFind \/ GetContent \/ GetContentFind
    \/ Respond \/ StoreInsert \/ StoreDelete

SpecTool == Init /\ [][NextTool]_vars

(***************************************************************************)
(* The two option sanitizers as functions of the options mapping: any      *)
(* keys, any values.                                                       *)
(***************************************************************************)
MaxLimitInput == 103
MaxSkipInput == 3

Absent == [t |-> "absent", n |-> 0]

NonIntegers == {StrV(2), NoneV, FloatV, MapV(1)}

LimitInputs ==
    {Absent} \cup {IntV(i) : i \in -3..MaxLimitInput}
    \cup {BoolV(TRUE), BoolV(FALSE)} \cup NonIntegers

SkipInputs ==
    {Absent} \cup {IntV(i) : i \in (0 - MaxSkipInput)..MaxSkipInput}
    \cup {BoolV(TRUE)} \cup NonIntegers

Part(k, v) == IF v.t = "absent" THEN <<>> ELSE k :> v

RawOptions ==
    {Part("limit", l) @@ Part("skip", s) @@ Part("projection", p)
       @@ Part("sort", o) @@ Part("hint", h) @@ Part("batch_size", b) :
       l \in LimitInputs, s \in SkipInputs,
       p \in {Absent, MapV(0), MapV(1)}, o \in {Absent, MapV(1), StrV(1)},
       h \in {Absent, StrV(3)}, b \in {Absent, IntV(1000)}}

InitSanitize ==
    /\ client = "None"
    /\ db = "None"
    /\ collection = "None"
    /\ is_connected = FALSE
    /\ pc = "constructed"
    /\ log = {}
    /\ store = [abc |-> 0, other |-> 0]
    /\ req = Idle
    /\ san \in {[NoSan EXCEPT !.raw = o] : o \in RawOptions}

\* MongoQueryTool._validate_options(options)
ValidateOptions ==
    /\ "validate" \notin san.done
    /\ san' = [san EXCEPT !.done = @ \cup {"validate"},
                          !.raised = validate_options(san.raw).raised,
                          !.validated = validate_options(san.raw).value]
    /\ UNCHANGED <<server, store, req>>

\* call_tool's filtered_options = {k: v for k, v in options.items() if ...}
FilterOptions ==
    /\ "filter" \notin san.done
    /\ san' = [san EXCEPT !.done = @ \cup {"filter"},
                          !.filtered = filtered_options(san.raw)]
    /\ UNCHANGED <<server, store, req>>

NextSanitize == ValidateOptions \/ FilterOptions

SpecSanitize == InitSanitize /\ [][NextSanitize]_vars

(***************************************************************************)
(* Properties of the sanitizers (SpecSanitize).                            *)
(***************************************************************************)
Whitelist == {"projection", "sort", "limit", "skip"}

Validated == "validate" \in san.done
Filtered == "filter" \in san.done

\* C1: whatever the options mapping holds, the options either sanitizer
\* hands on have their keys in {projection, sort, limit, skip}: the
\* whitelisted keys that were given are kept, every other key is dropped, and
\* dropping raises nothing.  On both paths: _validate_options and call_tool.
C1_KeysWhitelisted ==
    /\ Validated =>
         /\ DOMAIN san.validated \subseteq Whitelist
         /\ DOMAIN san.validated = DOMAIN san.raw \cap Whitelist
         /\ san.raised = "none"
    /\ Filtered =>
         /\ DOMAIN san.filtered \subseteq Whitelist
         /\ DOMAIN san.filtered = DOMAIN san.raw \cap Whitelist

C1_Witness ==
    /\ Validated /\ Filtered
    /\ {"hint", "batch_size"} \subseteq DOMAIN san.raw
    /\ DOMAIN san.validated = {"limit", "skip"}
    /\ DOMAIN san.filtered = {"limit", "skip"}

\* C2: an integer limit comes out <= 100 and an integer skip comes out >= 0;
\* a limit that is no integer comes out as 100 and a skip that is no integer
\* as 0; the sanitizer raises on no input.  (An integer is what
\* isinstance(value, int) accepts: True and False count, as 1 and 0.)
C2_LimitCappedSkipNonNegative ==
    Validated =>
      /\ san.raised = "none"
      /\ "limit" \in DOMAIN san.raw =>
           /\ isinstance_int(san.validated["limit"])
           /\ san.validated["limit"].n <= 100
           /\ ~isinstance_int(san.raw["limit"]) => san.validated["limit"] = IntV(100)
      /\ "skip" \in DOMAIN san.raw =>
           /\ isinstance_int(san.validated["skip"])
           /\ san.validated["skip"].n >= 0
           /\ ~isinstance_int(san.raw["skip"]) => san.validated["skip"] = IntV(0)

C2_Witness ==
    /\ Validated
    /\ "limit" \in DOMAIN san.raw /\ "skip" \in DOMAIN san.raw
    /\ san.raw["limit"] = IntV(101) /\ san.validated["limit"] = IntV(100)
    /\ san.raw["skip"] = StrV(2) /\ san.validated["skip"] = IntV(0)

\* C3: a sanitized limit lies in [1,100] for every integer limit given,
\* 0 and the negative ones included.
C3_LimitInRange ==
    (Validated /\ "limit" \in DOMAIN san.raw /\ san.raw["limit"].t = "int") =>
      /\ san.validated["limit"].n >= 1
      /\ san.validated["limit"].n <= 100

(***************************************************************************)
(* Properties of the server (Spec) and of the query tool and the           *)
(* collection resource (SpecTool).                                         *)
(***************************************************************************)
Returned(op) == req.op = op /\ req.pc = "done"

\* C4: a tool call returns at most 100 documents, whatever the collection
\* holds and whatever limit is given (none, 500, 0, a negative one).
C4_AtMost100Documents ==
    Returned("call_tool") => req.page.len <= 100

\* the limit the request asked for after sanitizing, 100 when it gave none
LimitOrDefault ==
    IF req.op = "get_content" THEN req.args.d["limit"].n
    ELSE IF "limit" \in DOMAIN req.opts THEN req.opts["limit"].n
    ELSE 100

\* C5: a query that produces a result page returns at most
\* min(total_count, limit_or_default) documents, also when the collection
\* changes between the count and the read.
C5_ReturnedWithinCountAndLimit ==
    ((Returned("execute") \/ Returned("get_content"))
       /\ req.resp.kind \in {"documents", "no_documents"}) =>
      req.page.len <= Min(req.total, LimitOrDefault)

\* C6: when connected, a tool call under any name but the advertised one,
\* "query_unknown" included, is answered "unknown tool", raises nothing and
\* reads nothing from the store.
C6_UnknownToolRejected ==
    (Returned("call_tool") /\ is_connected /\ req.name # list_tools_name) =>
      /\ req.resp.kind = "unknown_tool"
      /\ req.raised = "none"
      /\ req.reads = 0

\* C7: while is_connected is false every tool call (any name, any
\* arguments) and every resource read answers "MongoDB connection not
\* initialized" and performs no operation on the store; a store operation
\* of a handler happens only when connected.
C7_NotInitializedWhenDisconnected ==
    (Returned("call_tool") \/ Returned("read_resource")) =>
      /\ ~is_connected =>
           /\ req.resp = Text("not_initialized")
           /\ req.raised = "none"
           /\ req.reads = 0
      /\ req.reads > 0 => is_connected

C7_Witness ==
    /\ Returned("call_tool")
    /\ ~is_connected
    /\ pc = "returned"
    /\ req.name = list_tools_name
    /\ req.args.t = "dict"
    /\ req.resp = Text("not_initialized")

\* C8: when the connection attempt at startup fails the service does not
\* stop: it logs the failure and is in (or has been through) the serving
\* loop, disconnected.
C8_ServesDegradedAfterFailedStartup ==
    "Failed to connect to MongoDB" \in log =>
      /\ "MCP server stdio transport initialized" \in log
      /\ ~is_connected

\* C9: a failure inside call_tool or read_resource (the store read fails,
\* the store rejects the filter, the arguments are missing or malformed) is
\* caught by the handler and answered with an error text: no exception
\* leaves the handler, and is_connected and the serving loop are as they
\* were, so the next request is handled.
C9_FailuresCaught ==
    [][(req.pc = "idle" /\ req'.pc = "done"
          /\ req'.op \in {"call_tool", "read_resource"}
          /\ req'.exc # "none") =>
         /\ req'.raised = "none"
         /\ req'.resp = Text("error")
         /\ is_connected' = is_connected
         /\ pc' = pc]_vars

C9_Witness ==
    /\ Returned("call_tool")
    /\ pc = "serving" /\ is_connected
    /\ req.exc = "OperationFailure"
    /\ req.resp = Text("error")
    /\ req.raised = "none"

\* C10: a non-empty result is prefixed by a summary that states totalCount,
\* the number of all documents matching the filter whatever skip and limit
\* are, and the range skip+1 .. min(skip+len(documents), totalCount).
C10_SummaryStatesTotalAndRange ==
    (Returned("call_tool") /\ req.resp.kind = "documents") =>
      /\ req.resp.found = Matching(store, req.query)
      /\ req.resp.first = req.cursor.skip + 1
      /\ req.resp.last = Min(req.cursor.skip + req.page.len,
                             Matching(store, req.query))

\* the value the request gave for an option, None when it gave none
GivenOption(k) ==
    IF req.args.t = "dict" /\ "options" \in DOMAIN req.args.d
       /\ req.args.d["options"].t = "dict"
    THEN Get(req.args.d["options"].d, k)
    ELSE NoneV

\* C11: a tool call reads once over the filter with every whitelisted option
\* that is present in effect: the projection is applied (the read is made),
\* with skip = S > 0 the page starts at the (S+1)-th matching document, and
\* the limit bounds the page after the skip.
C11_OptionsTakeEffect ==
    (Returned("call_tool") /\ is_connected /\ req.name = list_tools_name) =>
      /\ (GivenOption("projection") = MapV(1) /\ isinstance_dict(req.args.d["query"]))
           => req.exc # "AttributeError"
      /\ req.resp.kind = "documents" =>
           /\ req.reads = 1
           /\ (GivenOption("skip").t = "int" /\ GivenOption("skip").n > 0) =>
                /\ req.cursor.skip = GivenOption("skip").n
                /\ req.page.start = GivenOption("skip").n + 1
           /\ (GivenOption("limit").t = "int" /\ GivenOption("limit").n > 0) =>
                req.page.len <= GivenOption("limit").n

\* a step of list_resources, read_resource, list_tools or call_tool
HandlerStep ==
    /\ req.pc = "idle" /\ req'.pc = "done"
    /\ req'.op \in {"list_resources", "read_resource", "list_tools", "call_tool"}

\* C12: is_connected is true only when setup_mongodb has completed
\* successfully and client, db and collection are all set; only
\* setup_mongodb (in run) changes is_connected, no handler does; and a
\* handler that reaches a store access does so with a collection that is set.
C12_ConnectedOnlyAfterSetup ==
    /\ [](is_connected =>
            /\ "Successfully connected to MongoDB" \in log
            /\ client = "set" /\ db = "set" /\ collection = "set")
    /\ []((req.pc = "done" /\ req.reads > 0
             /\ req.op \in {"read_resource", "call_tool"}) => collection = "set")
    /\ [][/\ is_connected' # is_connected => (pc = "constructed" /\ pc' # pc)
          /\ HandlerStep => UNCHANGED <<client, db, collection, is_connected>>]_vars

C12_Witness ==
    /\ is_connected
    /\ client = "set" /\ db = "set" /\ collection = "set"
    /\ Returned("call_tool")
    /\ req.reads = 1
    /\ req.resp.kind = "documents"

====
